---- MODULE Spec2Model ----
(***************************************************************************)
(* The TCP relay secure connection of mintox (tcp_server.go): handshake,   *)
(* length-prefixed framing, nonce bookkeeping, the status state machine    *)
(* and the two goroutines of a connection (runReadLoop, runWriteLoop)      *)
(* with their bounded output queues.                                       *)
(*                                                                         *)
(* Bytes are integers 0..255 and buffers are sequences of bytes.  The key, *)
(* nonce, MAC and ping-id widths and the queue capacities are scaled down  *)
(* (see the bounds below); every definition is generic in them.            *)
(***************************************************************************)
EXTENDS Integers, Sequences, FiniteSets, TLC

\* ---------------------------------------------------------------- bounds
\* Widths in bytes, scaled (the program uses 32, 24, 16 and 8).
PUBLIC_KEY_SIZE == 1
NONCE_SIZE == 1
MAC_SIZE == 1
PingIdSize == 1
\* cap(cwctrlq) and cap(cwdataq), scaled (the program uses 64 and 128).
CtrlQCap == 1
DataQCap == 1
\* Largest control payload SendCtrlPacket accepts, scaled (the program: 2048).
CtrlMaxLen == 2
\* How much the environment does in one run.
MaxFrames == 2
MaxCalls == 2
MaxDataCalls == 1
MaxPings == 2
\* The listening sockets of the server and the sockets they accept in a run.
NumListeners == 2
MaxSocks == 3

\* ------------------------------------------------------ program constants
TCP_PACKET_ROUTING_REQUEST == 0
TCP_PACKET_ROUTING_RESPONSE == 1
TCP_PACKET_CONNECTION_NOTIFICATION == 2
TCP_PACKET_DISCONNECT_NOTIFICATION == 3
TCP_PACKET_PING == 4
TCP_PACKET_PONG == 5
TCP_PACKET_OOB_SEND == 6
TCP_PACKET_OOB_RECV == 7
TCP_PACKET_ONION_REQUEST == 8
TCP_PACKET_ONION_RESPONSE == 9
NUM_RESERVED_PORTS == 16

TCP_STATUS_NO_STATUS == 0
TCP_STATUS_CONNECTED == 1
TCP_STATUS_UNCONFIRMED == 2
TCP_STATUS_CONFIRMED == 3

\* rdbuf := make([]byte, 3000): the most one socket read returns.
ReadBufSize == 3000
\* sizeof(uint16): the length prefix of a frame.
LenPrefixSize == 2

\* *nxtpktlen = (PUBLIC_KEY_SIZE+NONCE_SIZE)*2 + MAC_SIZE
HandshakeRequestSize == (PUBLIC_KEY_SIZE + NONCE_SIZE) * 2 + MAC_SIZE

\* ------------------------------------------------------------ byte helpers
RECURSIVE SumSeq(_)
SumSeq(s) == IF s = <<>> THEN 0 ELSE s[1] + SumSeq(Tail(s))

Zeros(n) == [i \in 1..n |-> 0]

Fill(n, b) == [i \in 1..n |-> b]

\* binary.Write(.., binary.BigEndian, uint16(n))
PutU16(n) == <<(n \div 256) % 256, n % 256>>

\* binary.Read(.., binary.BigEndian, &uint16)
GetU16(b) == b[1] * 256 + b[2]

Drop(s, n) == SubSeq(s, n + 1, Len(s))

Take(s, n) == SubSeq(s, 1, n)

\* ------------------------------------------- keys, nonces, the box primitive
\* A key is PUBLIC_KEY_SIZE bytes; the keys of a run repeat one byte.
NewCryptoKey(v) == Fill(PUBLIC_KEY_SIZE, v)

KeyVal(k) == k[1]

\* Diffie-Hellman in the multiplicative toy group: derive(s) = 2*s mod 251,
\* beforenm(pk, sk) = pk*sk mod 251, so both sides derive the same key.
CBDerivePubkey(sk) == NewCryptoKey((2 * KeyVal(sk)) % 251)

CBBeforeNm(pk, sk) == NewCryptoKey((KeyVal(pk) * KeyVal(sk)) % 251)

\* CBNonce.Incr: big-endian increment with carry, wrapping at the width.
RECURSIVE IncrAt(_, _)
IncrAt(n, i) ==
    IF i = 0 THEN n
    ELSE IF n[i] = 255 THEN IncrAt([n EXCEPT ![i] = 0], i - 1)
    ELSE [n EXCEPT ![i] = n[i] + 1]

Incr(n) == IncrAt(n, Len(n))

RECURSIVE NonceVal(_)
NonceVal(n) == IF n = <<>> THEN 0 ELSE NonceVal(Take(n, Len(n) - 1)) * 256 + n[Len(n)]

NonceOf(v) == [i \in 1..NONCE_SIZE |-> IF i = NONCE_SIZE THEN v % 256 ELSE 0]

\* Authenticated encryption: MAC bytes, then the body under a key/nonce pad.
Pad(key, nonce) == (KeyVal(key) * 3 + SumSeq(nonce)) % 256

MacByte(key, nonce, plain) ==
    (KeyVal(key) * 31 + SumSeq(nonce) * 101 + SumSeq(plain) * 3 + Len(plain) + 1) % 256

EncryptDataSymmetric(key, nonce, plain) ==
    Fill(MAC_SIZE, MacByte(key, nonce, plain))
        \o [i \in 1..Len(plain) |-> (plain[i] + Pad(key, nonce)) % 256]

\* The candidate plaintext of a ciphertext, before its MAC is verified.
OpenBody(key, nonce, enc) ==
    [i \in 1..(Len(enc) - MAC_SIZE) |-> (enc[MAC_SIZE + i] + 256 - Pad(key, nonce)) % 256]

DecryptOk(key, nonce, enc) ==
    /\ key # <<>>
    /\ nonce # <<>>
    /\ Len(enc) >= MAC_SIZE
    /\ \A i \in 1..MAC_SIZE : enc[i] = MacByte(key, nonce, OpenBody(key, nonce, enc))

\* What DecryptDataSymmetric hands back: the plaintext, or on a failed
\* verification either no buffer at all or a zeroed one (the error is only
\* printed by the callers, which go on to use the buffer).
DecryptDataSymmetric(key, nonce, enc) ==
    IF DecryptOk(key, nonce, enc)
    THEN {OpenBody(key, nonce, enc)}
    ELSE {<<>>} \cup (IF Len(enc) > MAC_SIZE THEN {Zeros(Len(enc) - MAC_SIZE)} ELSE {})

\* ------------------------------------------------------------------ state
VARIABLES
    Status,      \* TCPSecureConn.Status
    Pubkey,      \* TCPSecureConn.Pubkey, <<>> while nil
    Shrkey,      \* TCPSecureConn.Shrkey, <<>> while nil
    RecvNonce,   \* TCPSecureConn.RecvNonce, <<>> while nil
    SentNonce,   \* TCPSecureConn.SentNonce, <<>> while nil
    crbuf,       \* the ring buffer of received bytes
    cwctrlq,     \* the control channel: a sequence of payloads
    cwctrldlen,  \* bytes queued in cwctrlq
    cwdataq,     \* the data channel
    cwdatadlen,  \* bytes queued in cwdataq
    rpc,         \* where runReadLoop is
    nxtpktlen,   \* runReadLoop's nxtpktlen
    hsl,         \* HandleHandshake's locals between its steps
    wpc,         \* where runWriteLoop is
    wdata,       \* runWriteLoop's data
    ctrlq,       \* runWriteLoop's ctrlq
    netin,       \* bytes the peer sent that the relay has not read yet
    sockst,      \* "open", "eof" (the peer closed), "reset" (the socket failed)
    sockout,     \* what the relay wrote to the socket, one entry per Write
    peer,        \* the client: what it sent and its send nonce
    cpc,         \* where the external SendCtrlPacket caller is
    cdata,       \* the payload of that caller's current or last call
    cret,        \* what the last SendCtrlPacket/SendDataPacket call returned
    ncalls,      \* calls made by the external callers so far
    crashed,     \* "no", or how the process ended: "panic", "assert", "fatal"
    hist         \* history of the run, read by the properties only: OnClosed and
                 \* OnConfirmed calls, frames written and decrypted, the nonces
                 \* the handshake set, the (nonce, plaintext) pairs encrypted
                 \* under Shrkey, MakePingPacket calls, and where the first
                 \* control packet accepted after OnClosed is

VARIABLES
    HSConns,     \* TCPServer.HSConns: socket -> connection
    Conns,       \* TCPServer.Conns: public key -> connection
    hsconnmu,    \* TCPServer.hsconnmu: 0 while free, else the listener holding it
    apc,         \* where each runAcceptProc is
    asock,       \* each runAcceptProc's c
    asecon,      \* each startHandshake's secon
    nsocks,      \* sockets the listeners have handed out so far
    secons       \* the connections NewTCPSecureConn has made for the server

connVars == <<Status, Pubkey, Shrkey, RecvNonce, SentNonce>>
queueVars == <<cwctrlq, cwctrldlen, cwdataq, cwdatadlen>>
readVars == <<rpc, nxtpktlen, hsl, crbuf>>
writeVars == <<wpc, wdata, ctrlq>>
sockVars == <<netin, sockst, sockout>>
callVars == <<cpc, cdata, cret, ncalls>>
srvVars == <<HSConns, Conns, hsconnmu, apc, asock, asecon, nsocks, secons>>
oneConnVars == <<connVars, queueVars, readVars, writeVars, sockVars, callVars, peer, crashed,
                 hist>>
vars == <<oneConnVars, srvVars>>

\* ------------------------------------------------- the keys of one run
\* TCPServer.Seckey, copied into the connection by startHandshake.
Seckey == NewCryptoKey(7)

\* The client's long-term and temporary secret keys, its outer nonce and
\* the nonce seed it puts in the handshake request.
CliSeckey == NewCryptoKey(11)

CliTmpSeckey == NewCryptoKey(13)

CliOuterNonce == NonceOf(20)

CliSeed == NonceOf(255)

\* What the relay's random generators return in this run.
RandSentNonce == NonceOf(255)

RandSrvTmpNonce == NonceOf(40)

RandTmpSeckey == NewCryptoKey(17)

Init ==
    /\ Status = TCP_STATUS_NO_STATUS
    /\ Pubkey = <<>>
    /\ Shrkey = <<>>
    /\ RecvNonce = <<>>
    /\ SentNonce = <<>>
    /\ crbuf = <<>>
    /\ cwctrlq = <<>>
    /\ cwctrldlen = 0
    /\ cwdataq = <<>>
    /\ cwdatadlen = 0
    /\ rpc = "new"
    /\ nxtpktlen = 0
    /\ hsl = <<>>
    /\ wpc = "new"
    /\ wdata = <<>>
    /\ ctrlq = FALSE
    /\ netin = <<>>
    /\ sockst = "open"
    /\ sockout = <<>>
    /\ peer = [hs |-> FALSE, nonce |-> CliSeed, nframes |-> 0]
    /\ cpc = "idle"
    /\ cdata = <<>>
    /\ cret = "none"
    /\ ncalls = [ctrl |-> 0, data |-> 0]
    /\ crashed = "no"
    /\ hist = [closed |-> 0, confirmed |-> 0, nsent |-> 0, hsnonce |-> <<>>,
               seed |-> <<>>, decok |-> 0, decfail |-> 0, hsok |-> FALSE,
               hsresp |-> FALSE, firstping |-> <<>>, encs |-> {}, npings |-> 0,
               Pingid |-> 0, late |-> [st |-> "none", pos |-> 0]]
    /\ HSConns = <<>>
    /\ Conns = <<>>
    /\ hsconnmu = 0
    /\ apc = [l \in 1..NumListeners |-> "accept"]
    /\ asock = [l \in 1..NumListeners |-> 0]
    /\ asecon = [l \in 1..NumListeners |-> 0]
    /\ nsocks = 0
    /\ secons = <<>>

Alive == crashed = "no"

\* What Sock.Write can return: TRUE for success.  Once the peer has closed, a
\* write may still succeed or fail; on a failed socket it fails.
WriteOutcomes ==
    IF sockst = "open" THEN {TRUE}
    ELSE IF sockst = "eof" THEN {TRUE, FALSE}
    ELSE {FALSE}

\* Start: go this.runReadLoop(); go this.runWriteLoop().
Start ==
    /\ Alive
    /\ rpc = "new"
    /\ wpc = "new"
    /\ rpc' = "read"
    /\ wpc' = "select"
    /\ UNCHANGED <<connVars, queueVars, nxtpktlen, hsl, crbuf, wdata, ctrlq, sockVars,
                   callVars, peer, crashed, hist>>
    /\ UNCHANGED srvVars

\* ------------------------------------------------------------- runReadLoop
\* c.Read returns rn >= 1 bytes, which go into the ring buffer; then
\* doReadPacket runs.
SockReadData ==
    /\ Alive
    /\ rpc = "read"
    /\ sockst # "reset"
    /\ netin # <<>>
    /\ \E rn \in 1..Len(netin) :
        /\ rn <= ReadBufSize
        /\ crbuf' = crbuf \o Take(netin, rn)
        /\ netin' = Drop(netin, rn)
    /\ rpc' = "parse"
    /\ UNCHANGED <<connVars, queueVars, nxtpktlen, hsl, writeVars, sockst, sockout,
                   callVars, peer, crashed, hist>>
    /\ UNCHANGED srvVars

\* c.Read returns io.EOF: the status is reset and the loop is left.
SockReadEOF ==
    /\ Alive
    /\ rpc = "read"
    /\ sockst = "eof"
    /\ netin = <<>>
    /\ Status' = TCP_STATUS_NO_STATUS
    /\ rpc' = "closing"
    /\ UNCHANGED <<Pubkey, Shrkey, RecvNonce, SentNonce, queueVars, nxtpktlen, hsl, crbuf,
                   writeVars, sockVars, callVars, peer, crashed, hist>>
    /\ UNCHANGED srvVars

\* c.Read returns another error: the loop is left, the status is kept.
SockReadErr ==
    /\ Alive
    /\ rpc = "read"
    /\ sockst = "reset"
    /\ rpc' = "closing"
    /\ UNCHANGED <<connVars, queueVars, nxtpktlen, hsl, crbuf, writeVars, sockVars,
                   callVars, peer, crashed, hist>>
    /\ UNCHANGED srvVars

\* After the loop: OnClosed(this).
ReadLoopDone ==
    /\ Alive
    /\ rpc = "closing"
    /\ rpc' = "done"
    /\ hist' = [hist EXCEPT !.closed = @ + 1]
    /\ UNCHANGED <<connVars, queueVars, nxtpktlen, hsl, crbuf, writeVars, sockVars,
                   callVars, peer, crashed>>
    /\ UNCHANGED srvVars

\* ------------------------------------------------------------ doReadPacket
\* A reassembly that forgets a length prefix it has read when the body is
\* not buffered yet.
NextFrameForgetsPrefix(buf, nx) ==
    IF nx = 0 /\ Len(buf) < LenPrefixSize
    THEN [ready |-> FALSE, crbuf |-> buf, nxtpktlen |-> nx, rdbuf |-> <<>>]
    ELSE LET n == IF nx = 0 THEN GetU16(buf) ELSE nx
             rest == IF nx = 0 THEN Drop(buf, LenPrefixSize) ELSE buf
         IN  IF Len(rest) < n
             THEN [ready |-> FALSE, crbuf |-> rest, nxtpktlen |-> 0, rdbuf |-> <<>>]
             ELSE [ready |-> TRUE, crbuf |-> Drop(rest, n), nxtpktlen |-> n,
                   rdbuf |-> PutU16(n) \o Take(rest, n)]

\* The length-prefix logic of the UNCONFIRMED/CONFIRMED case: either the
\* function returns (ready = FALSE) or one frame rdbuf is cut out.
NextFrame(buf, nx) ==
    IF nx = 0 /\ Len(buf) < LenPrefixSize
    THEN [ready |-> FALSE, crbuf |-> buf, nxtpktlen |-> nx, rdbuf |-> <<>>]
    ELSE LET n == IF nx = 0 THEN GetU16(buf) ELSE nx
             rest == IF nx = 0 THEN Drop(buf, LenPrefixSize) ELSE buf
         IN  IF Len(rest) < n
             THEN [ready |-> FALSE, crbuf |-> rest, nxtpktlen |-> n, rdbuf |-> <<>>]
             ELSE [ready |-> TRUE, crbuf |-> Drop(rest, n), nxtpktlen |-> n,
                   rdbuf |-> PutU16(n) \o Take(rest, n)]

\* Unpacket: the plaintexts DecryptDataSymmetric may hand back for a frame.
Unpacket(encpkt) == DecryptDataSymmetric(Shrkey, RecvNonce, Drop(encpkt, LenPrefixSize))

\* Unpacket's effect on the receive nonce.
UnpacketNonce(nonce, ok) == Incr(nonce)

\* A reply that keeps the type byte of the request.
HandlePingRequestEcho(rpkt) == rpkt

\* HandlePingRequest: the reply built from a received packet.
HandlePingRequest(rpkt) == <<TCP_PACKET_PONG>> \o Tail(rpkt)

\* A length check that lets one byte more through.
TooLongOffByOne(data) == Len(data) > CtrlMaxLen + 1

\* SendCtrlPacket: len(data) > 2048.
TooLong(data) == Len(data) > CtrlMaxLen

\* SendCtrlPacket as one step: what it returns for queue q and payload data.
SendCtrlResult(q, data) ==
    IF TooLong(data) THEN "toolong"
    ELSE IF Len(q) >= CtrlQCap THEN "full"
    ELSE "ok"

\* The switch on ptype in CONFIRMED state: the case taken.
Dispatch(ptype) ==
    IF ptype = TCP_PACKET_PING THEN "ping"
    ELSE IF ptype = TCP_PACKET_PONG THEN "pong"
    ELSE IF ptype = TCP_PACKET_ROUTING_RESPONSE THEN "routing_response"
    ELSE IF ptype = TCP_PACKET_CONNECTION_NOTIFICATION THEN "connection_notification"
    ELSE IF ptype = TCP_PACKET_DISCONNECT_NOTIFICATION THEN "disconnect_notification"
    ELSE IF ptype = TCP_PACKET_OOB_RECV THEN "oob_recv"
    ELSE IF ptype = TCP_PACKET_ONION_RESPONSE THEN "onion_response"
    ELSE IF ptype >= NUM_RESERVED_PORTS THEN "routing_data"
    ELSE IF ptype > TCP_PACKET_ONION_RESPONSE /\ ptype < NUM_RESERVED_PORTS THEN "reserved"
    ELSE "fatal"

\* NO_STATUS: the handshake request is read from the ring buffer (the read
\* must fill rdbuf, or the assertion aborts) and HandleHandshake starts:
\* the request is decrypted, Pubkey, RecvNonce and SentNonce are set.
DoReadHandshake ==
    /\ Alive
    /\ rpc = "parse"
    /\ Status = TCP_STATUS_NO_STATUS
    /\ IF Len(crbuf) < HandshakeRequestSize
       THEN /\ crashed' = "assert"
            /\ crbuf' = <<>>
            /\ UNCHANGED <<Pubkey, RecvNonce, SentNonce, hsl, rpc, hist>>
       ELSE LET rdbuf == Take(crbuf, HandshakeRequestSize)
                cliPubkey == Take(rdbuf, PUBLIC_KEY_SIZE)
                cliTmpNonce == SubSeq(rdbuf, PUBLIC_KEY_SIZE + 1, PUBLIC_KEY_SIZE + NONCE_SIZE)
                shrkey == CBBeforeNm(cliPubkey, Seckey)
                blob == Drop(rdbuf, PUBLIC_KEY_SIZE + NONCE_SIZE)
            IN  \E cliplnpkt \in DecryptDataSymmetric(shrkey, cliTmpNonce, blob) :
                    /\ crbuf' = Drop(crbuf, HandshakeRequestSize)
                    /\ Pubkey' = cliPubkey
                    /\ IF Len(cliplnpkt) < PUBLIC_KEY_SIZE
                       THEN /\ crashed' = "panic"
                            /\ UNCHANGED <<RecvNonce, SentNonce, hsl, rpc, hist>>
                       ELSE /\ RecvNonce' = SubSeq(cliplnpkt, PUBLIC_KEY_SIZE + 1,
                                                   PUBLIC_KEY_SIZE + NONCE_SIZE)
                            /\ SentNonce' = RandSentNonce
                            /\ hsl' = [shrkey |-> shrkey,
                                       hstmppk |-> Take(cliplnpkt, PUBLIC_KEY_SIZE)]
                            /\ rpc' = "hs363"
                            /\ hist' = [hist EXCEPT
                                  !.seed = RecvNonce', !.hsnonce = RandSentNonce,
                                  !.hsok = DecryptOk(shrkey, cliTmpNonce, blob)]
                            /\ UNCHANGED crashed
    /\ UNCHANGED <<Status, Shrkey, queueVars, nxtpktlen, writeVars, sockVars, callVars, peer>>
    /\ UNCHANGED srvVars

\* HandleHandshake, line 363: the session key.
HandshakeShrkey ==
    /\ Alive
    /\ rpc = "hs363"
    /\ Shrkey' = CBBeforeNm(hsl.hstmppk, RandTmpSeckey)
    /\ rpc' = "hs374"
    /\ UNCHANGED <<Status, Pubkey, RecvNonce, SentNonce, queueVars, nxtpktlen, hsl, crbuf,
                   writeVars, sockVars, callVars, peer, crashed, hist>>
    /\ UNCHANGED srvVars

\* The handshake response: srvTmpNonce, then tmpPubkey and SentNonce sealed
\* under the long-term shared key.
HandshakeResponse(shrkey, sentNonce) ==
    RandSrvTmpNonce
        \o EncryptDataSymmetric(shrkey, RandSrvTmpNonce,
                                CBDerivePubkey(RandTmpSeckey) \o sentNonce)

\* HandleHandshake, lines 364-375: the response is written; a write error
\* is printed and nothing else.
HandshakeWrite ==
    /\ Alive
    /\ rpc = "hs374"
    /\ \E ok \in WriteOutcomes :
        /\ sockout' = IF ok
                      THEN Append(sockout, [kind |-> "hs",
                                            bytes |-> HandshakeResponse(hsl.shrkey, SentNonce)])
                      ELSE sockout
        /\ hist' = [hist EXCEPT !.hsresp = ok]
    /\ rpc' = "hs232"
    /\ UNCHANGED <<connVars, queueVars, nxtpktlen, hsl, crbuf, writeVars, netin, sockst,
                   callVars, peer, crashed>>
    /\ UNCHANGED srvVars

\* doReadPacket, line 232, and the loop's *nxtpktlen = 0.
HandshakeDone ==
    /\ Alive
    /\ rpc = "hs232"
    /\ Status' = TCP_STATUS_UNCONFIRMED
    /\ nxtpktlen' = 0
    /\ hsl' = <<>>
    /\ rpc' = "parse"
    /\ UNCHANGED <<Pubkey, Shrkey, RecvNonce, SentNonce, queueVars, crbuf, writeVars,
                   sockVars, callVars, peer, crashed, hist>>
    /\ UNCHANGED srvVars

\* UNCONFIRMED/CONFIRMED with no whole frame buffered: doReadPacket returns
\* (keeping a length prefix it has read) and the loop reads the socket again.
DoReadReturn ==
    /\ Alive
    /\ rpc = "parse"
    /\ Status \in {TCP_STATUS_UNCONFIRMED, TCP_STATUS_CONFIRMED}
    /\ LET f == NextFrame(crbuf, nxtpktlen)
       IN  /\ ~f.ready
           /\ crbuf' = f.crbuf
           /\ nxtpktlen' = f.nxtpktlen
    /\ rpc' = "read"
    /\ UNCHANGED <<connVars, queueVars, hsl, writeVars, sockVars, callVars, peer, crashed,
                   hist>>
    /\ UNCHANGED srvVars

\* UNCONFIRMED with a frame: Unpacket, plnpkt[0], HandlePingRequest (whose
\* SendCtrlPacket result is dropped), Status = CONFIRMED, OnConfirmed.
DoReadUnconfirmed ==
    /\ Alive
    /\ rpc = "parse"
    /\ Status = TCP_STATUS_UNCONFIRMED
    /\ LET f == NextFrame(crbuf, nxtpktlen)
       IN  /\ f.ready
           /\ crbuf' = f.crbuf
           /\ \E plnpkt \in Unpacket(f.rdbuf) :
               LET ok == DecryptOk(Shrkey, RecvNonce, Drop(f.rdbuf, LenPrefixSize))
                   pong == HandlePingRequest(plnpkt)
                   sent == SendCtrlResult(cwctrlq, pong) = "ok"
               IN  /\ RecvNonce' = UnpacketNonce(RecvNonce, ok)
                   /\ IF plnpkt = <<>>
                      THEN /\ crashed' = "panic"
                           /\ hist' = [hist EXCEPT !.decfail = @ + 1]
                           /\ UNCHANGED <<Status, cwctrlq, cwctrldlen, nxtpktlen>>
                      ELSE /\ cwctrlq' = IF sent THEN Append(cwctrlq, pong) ELSE cwctrlq
                           /\ cwctrldlen' = IF sent THEN cwctrldlen + Len(pong)
                                            ELSE cwctrldlen
                           /\ Status' = TCP_STATUS_CONFIRMED
                           /\ nxtpktlen' = 0
                           /\ hist' = [hist EXCEPT
                                 !.decok = IF ok THEN @ + 1 ELSE @,
                                 !.decfail = IF ok THEN @ ELSE @ + 1,
                                 !.confirmed = @ + 1,
                                 !.firstping = IF ok /\ plnpkt[1] = TCP_PACKET_PING
                                               THEN Tail(plnpkt) ELSE @]
                           /\ UNCHANGED crashed
    /\ UNCHANGED <<Pubkey, Shrkey, SentNonce, cwdataq, cwdatadlen, hsl, rpc, writeVars,
                   sockVars, callVars, peer>>
    /\ UNCHANGED srvVars

\* CONFIRMED with a frame: Unpacket, plnpkt[0], the switch on ptype (every
\* handler is commented out; the default case is log.Fatalln).
DoReadConfirmed ==
    /\ Alive
    /\ rpc = "parse"
    /\ Status = TCP_STATUS_CONFIRMED
    /\ LET f == NextFrame(crbuf, nxtpktlen)
       IN  /\ f.ready
           /\ crbuf' = f.crbuf
           /\ \E plnpkt \in Unpacket(f.rdbuf) :
               LET ok == DecryptOk(Shrkey, RecvNonce, Drop(f.rdbuf, LenPrefixSize))
               IN  /\ RecvNonce' = UnpacketNonce(RecvNonce, ok)
                   /\ IF plnpkt = <<>>
                      THEN /\ crashed' = "panic"
                           /\ hist' = [hist EXCEPT !.decfail = @ + 1]
                           /\ UNCHANGED nxtpktlen
                      ELSE /\ crashed' = IF Dispatch(plnpkt[1]) = "fatal" THEN "fatal"
                                         ELSE crashed
                           /\ nxtpktlen' = IF Dispatch(plnpkt[1]) = "fatal" THEN nxtpktlen
                                           ELSE 0
                           /\ hist' = [hist EXCEPT
                                 !.decok = IF ok THEN @ + 1 ELSE @,
                                 !.decfail = IF ok THEN @ ELSE @ + 1]
    /\ UNCHANGED <<Status, Pubkey, Shrkey, SentNonce, queueVars, hsl, rpc, writeVars,
                   sockVars, callVars, peer>>
    /\ UNCHANGED srvVars

\* ------------------------------------------------------------ runWriteLoop
\* The first control packet accepted after OnClosed, followed through the
\* channel: accepted at position pos, one place nearer the head with every
\* receive, in the worker's hand, written.
LateAccepted(late, q) ==
    IF rpc = "done" /\ late.st = "none" THEN [st |-> "queued", pos |-> Len(q) + 1] ELSE late

LateReceived(late) ==
    IF late.st # "queued" THEN late
    ELSE IF late.pos = 1 THEN [st |-> "inhand", pos |-> 0]
    ELSE [late EXCEPT !.pos = @ - 1]

LateWritten(late, ok) ==
    IF late.st = "inhand" /\ ok THEN [late EXCEPT !.st = "written"] ELSE late

\* CreatePacket: the frame for a plaintext, under Shrkey and SentNonce.
CreatePacket(plain) ==
    LET encdat == EncryptDataSymmetric(Shrkey, SentNonce, plain)
    IN  PutU16(Len(encdat)) \o encdat

\* A send nonce advanced whether the write failed or not.
WritePacketNonceAlways(nonce, ok) == Incr(nonce)

\* WritePacket's effect on the send nonce: Incr after a write without error.
WritePacketNonce(nonce, ok) == IF ok THEN Incr(nonce) ELSE nonce

\* WritePacket(wdata), then where the loop goes: next on success, "done"
\* (endloop) on a write error.  With Shrkey or SentNonce still nil the
\* encryption dereferences nil and the process panics.
WritePacket(next) ==
    IF Shrkey = <<>> \/ SentNonce = <<>>
    THEN /\ crashed' = "panic"
         /\ UNCHANGED <<SentNonce, sockout, wpc, hist>>
    ELSE \E ok \in WriteOutcomes :
            /\ sockout' = IF ok
                          THEN Append(sockout, [kind |-> "pkt", bytes |-> CreatePacket(wdata)])
                          ELSE sockout
            /\ SentNonce' = WritePacketNonce(SentNonce, ok)
            /\ wpc' = IF ok THEN next ELSE "done"
            /\ hist' = [hist EXCEPT !.nsent = IF ok THEN @ + 1 ELSE @,
                                     !.encs = @ \cup {<<SentNonce, wdata>>},
                                     !.late = LateWritten(@, ok)]
            /\ UNCHANGED crashed

\* select: case data = <-this.cwctrlq
SelectCtrl ==
    /\ Alive
    /\ wpc = "select"
    /\ cwctrlq # <<>>
    /\ wdata' = Head(cwctrlq)
    /\ cwctrlq' = Tail(cwctrlq)
    /\ cwctrldlen' = cwctrldlen - Len(Head(cwctrlq))
    /\ ctrlq' = TRUE
    /\ wpc' = "write"
    /\ hist' = [hist EXCEPT !.late = LateReceived(@)]
    /\ UNCHANGED <<connVars, cwdataq, cwdatadlen, readVars, sockVars, callVars, peer,
                   crashed>>
    /\ UNCHANGED srvVars

\* select: case data = <-this.cwdataq
SelectData ==
    /\ Alive
    /\ wpc = "select"
    /\ cwdataq # <<>>
    /\ wdata' = Head(cwdataq)
    /\ cwdataq' = Tail(cwdataq)
    /\ cwdatadlen' = cwdatadlen - Len(Head(cwdataq))
    /\ ctrlq' = FALSE
    /\ wpc' = "write"
    /\ UNCHANGED <<connVars, cwctrlq, cwctrldlen, readVars, sockVars, callVars, peer,
                   crashed, hist>>
    /\ UNCHANGED srvVars

\* Where the loop goes after the selected item is written: back to the
\* select for a control item, into flushCtrl for a data item.
AfterWrite(fromCtrl) == IF fromCtrl THEN "select" ELSE "flush"

\* Lines 313-330: the selected item is written; the next iteration starts
\* with data, ctrlq := nil, false.
LoopWrite ==
    /\ Alive
    /\ wpc = "write"
    /\ WritePacket(AfterWrite(ctrlq))
    /\ wdata' = <<>>
    /\ ctrlq' = FALSE
    /\ UNCHANGED <<Status, Pubkey, Shrkey, RecvNonce, queueVars, readVars, netin, sockst,
                   callVars, peer>>
    /\ UNCHANGED srvVars

\* A flush loop that stops one item early.
FlushMoreOffByOne(q) == Len(q) > 1

\* flushCtrl's loop condition: len(this.cwctrlq) > 0.
FlushMore(q) == Len(q) > 0

\* flushCtrl: one more control item is taken.
FlushTake ==
    /\ Alive
    /\ wpc = "flush"
    /\ FlushMore(cwctrlq)
    /\ wdata' = Head(cwctrlq)
    /\ cwctrlq' = Tail(cwctrlq)
    /\ cwctrldlen' = cwctrldlen - Len(Head(cwctrlq))
    /\ wpc' = "flushwrite"
    /\ hist' = [hist EXCEPT !.late = LateReceived(@)]
    /\ UNCHANGED <<connVars, cwdataq, cwdatadlen, readVars, ctrlq, sockVars, callVars,
                   peer, crashed>>
    /\ UNCHANGED srvVars

\* flushCtrl: the item taken is written.
FlushWrite ==
    /\ Alive
    /\ wpc = "flushwrite"
    /\ WritePacket("flush")
    /\ wdata' = <<>>
    /\ UNCHANGED <<Status, Pubkey, Shrkey, RecvNonce, queueVars, readVars, ctrlq, netin,
                   sockst, callVars, peer>>
    /\ UNCHANGED srvVars

\* flushCtrl returns nil: the control queue was seen empty.
FlushDone ==
    /\ Alive
    /\ wpc = "flush"
    /\ ~FlushMore(cwctrlq)
    /\ wpc' = "select"
    /\ UNCHANGED <<connVars, queueVars, readVars, wdata, ctrlq, sockVars, callVars, peer,
                   crashed, hist>>
    /\ UNCHANGED srvVars

\* ------------------------------------------------ callers of SendCtrlPacket
\* The payloads other goroutines hand to SendCtrlPacket and to the data
\* queue: routed packets, the longest payload allowed and one byte more.
Payloads == {Fill(CtrlMaxLen, NUM_RESERVED_PORTS), Fill(CtrlMaxLen + 1, NUM_RESERVED_PORTS)}

\* SendCtrlPacket, lines 402-408: the length check and the len >= cap check.
CallCheck ==
    /\ Alive
    /\ cpc = "idle"
    /\ ncalls.ctrl < MaxCalls
    /\ \E data \in Payloads :
        /\ cdata' = data
        /\ IF TooLong(data)
           THEN cret' = "toolong" /\ cpc' = "idle"
           ELSE IF Len(cwctrlq) >= CtrlQCap
           THEN cret' = "full" /\ cpc' = "idle"
           ELSE cret' = "none" /\ cpc' = "select"
    /\ ncalls' = [ncalls EXCEPT !.ctrl = @ + 1]
    /\ UNCHANGED <<connVars, queueVars, readVars, writeVars, sockVars, peer, crashed, hist>>
    /\ UNCHANGED srvVars

\* A send that does not look at the capacity of the channel.
CallSelectUnbounded ==
    /\ Alive
    /\ cpc = "select"
    /\ cwctrlq' = Append(cwctrlq, cdata)
    /\ cwctrldlen' = cwctrldlen + Len(cdata)
    /\ cret' = "ok"
    /\ cpc' = "idle"
    /\ hist' = [hist EXCEPT !.late = LateAccepted(@, cwctrlq)]
    /\ UNCHANGED <<connVars, cwdataq, cwdatadlen, readVars, writeVars, sockVars, ncalls, cdata,
                   peer, crashed>>
    /\ UNCHANGED srvVars

\* SendCtrlPacket, lines 410-416: the non-blocking send on the channel.
CallSelect ==
    /\ Alive
    /\ cpc = "select"
    /\ IF Len(cwctrlq) < CtrlQCap
       THEN /\ cwctrlq' = Append(cwctrlq, cdata)
            /\ cwctrldlen' = cwctrldlen + Len(cdata)
            /\ cret' = "ok"
            /\ hist' = [hist EXCEPT !.late = LateAccepted(@, cwctrlq)]
       ELSE /\ cret' = "full"
            /\ UNCHANGED <<cwctrlq, cwctrldlen, hist>>
    /\ cpc' = "idle"
    /\ UNCHANGED <<connVars, cwdataq, cwdatadlen, readVars, writeVars, sockVars, ncalls, cdata,
                   peer, crashed>>
    /\ UNCHANGED srvVars

\* A producer of the data queue: the non-blocking enqueue the outbound
\* design describes (no such producer is in tcp_server.go).
SendDataPacket ==
    /\ Alive
    /\ ncalls.data < MaxDataCalls
    /\ \E data \in {<<NUM_RESERVED_PORTS + 1, 2>>} :
        IF Len(cwdataq) < DataQCap
        THEN /\ cwdataq' = Append(cwdataq, data)
             /\ cwdatadlen' = cwdatadlen + Len(data)
        ELSE UNCHANGED <<cwdataq, cwdatadlen>>
    /\ ncalls' = [ncalls EXCEPT !.data = @ + 1]
    /\ UNCHANGED <<connVars, cwctrlq, cwctrldlen, readVars, writeVars, sockVars, cpc,
                   cdata, cret, peer, crashed, hist>>
    /\ UNCHANGED srvVars

\* The ping ids rand.Uint64 returns in a run (never 0).
PingIds == {1, 2}

\* MakePingPacket, called by another goroutine: a PING plaintext with a
\* random ping id goes through CreatePacket, which encrypts it under Shrkey
\* and SentNonce and leaves SentNonce as it is; the frame is returned.
\* (hist.Pingid is the connection's Pingid field.)
MakePingPacket ==
    /\ Alive
    /\ hist.npings < MaxPings
    /\ IF Shrkey = <<>> \/ SentNonce = <<>>
       THEN /\ crashed' = "panic"
            /\ UNCHANGED hist
       ELSE /\ \E pingid \in PingIds :
                hist' = [hist EXCEPT
                    !.npings = @ + 1,
                    !.Pingid = pingid,
                    !.encs = @ \cup {<<SentNonce,
                                       <<TCP_PACKET_PING>> \o Fill(PingIdSize, pingid)>>}]
            /\ UNCHANGED crashed
    /\ UNCHANGED <<connVars, queueVars, readVars, writeVars, sockVars, callVars, peer>>
    /\ UNCHANGED srvVars

\* ---------------------------------------------------------------- the peer
\* Flipping a MAC byte of a ciphertext.
Tamper(enc) == [enc EXCEPT ![1] = (@ + 1) % 256]

\* The client's handshake request.
PeerHandshake ==
    CBDerivePubkey(CliSeckey) \o CliOuterNonce
        \o EncryptDataSymmetric(CBBeforeNm(CBDerivePubkey(Seckey), CliSeckey), CliOuterNonce,
                                CBDerivePubkey(CliTmpSeckey) \o CliSeed)

PeerSendHandshake ==
    /\ Alive
    /\ sockst = "open"
    /\ ~peer.hs
    /\ \E bad \in BOOLEAN :
        netin' = netin \o (IF bad
                           THEN Take(PeerHandshake, PUBLIC_KEY_SIZE + NONCE_SIZE)
                                    \o Tamper(Drop(PeerHandshake, PUBLIC_KEY_SIZE + NONCE_SIZE))
                           ELSE PeerHandshake)
    /\ peer' = [peer EXCEPT !.hs = TRUE]
    /\ UNCHANGED <<connVars, queueVars, readVars, writeVars, sockst, sockout, callVars,
                   crashed, hist>>
    /\ UNCHANGED srvVars

\* The handshake response among the relay's writes, if it is there.
HsResponses == {i \in 1..Len(sockout) : sockout[i].kind = "hs"}

\* The session key the client derives from a handshake response.
PeerSessionKey(resp) ==
    LET k0 == CBBeforeNm(CBDerivePubkey(Seckey), CliSeckey)
        n0 == Take(resp, NONCE_SIZE)
        plain == OpenBody(k0, n0, Drop(resp, NONCE_SIZE))
    IN  CBBeforeNm(Take(plain, PUBLIC_KEY_SIZE), CliTmpSeckey)

\* The plaintexts the client sends: PING and ROUTING_REQUEST.
PeerPlains ==
    {<<TCP_PACKET_PING>> \o Fill(PingIdSize, 42),
     <<TCP_PACKET_ROUTING_REQUEST>> \o Fill(PingIdSize, 3)}

\* The client sends one frame, sealed with the session key and its send
\* nonce; the frame may be tampered with on the way.
PeerSendFrame ==
    /\ Alive
    /\ sockst = "open"
    /\ peer.hs
    /\ peer.nframes < MaxFrames
    /\ HsResponses # {}
    /\ \E plain \in PeerPlains, bad \in BOOLEAN :
        LET resp == sockout[CHOOSE i \in HsResponses : TRUE].bytes
            enc == EncryptDataSymmetric(PeerSessionKey(resp), peer.nonce, plain)
            sent == IF bad THEN Tamper(enc) ELSE enc
        IN  netin' = netin \o PutU16(Len(sent)) \o sent
    /\ peer' = [peer EXCEPT !.nframes = @ + 1, !.nonce = Incr(@)]
    /\ UNCHANGED <<connVars, queueVars, readVars, writeVars, sockst, sockout, callVars,
                   crashed, hist>>
    /\ UNCHANGED srvVars

\* The client closes the connection: the relay's reads end in io.EOF.
PeerClose ==
    /\ Alive
    /\ sockst = "open"
    /\ sockst' = "eof"
    /\ UNCHANGED <<connVars, queueVars, readVars, writeVars, netin, sockout, callVars,
                   peer, crashed, hist>>
    /\ UNCHANGED srvVars

\* The socket fails: reads and writes return an error from now on.
SockFail ==
    /\ Alive
    /\ sockst # "reset"
    /\ sockst' = "reset"
    /\ UNCHANGED <<connVars, queueVars, readVars, writeVars, netin, sockout, callVars,
                   peer, crashed, hist>>
    /\ UNCHANGED srvVars

\* --------------------------------------------------------------- TCPServer
\* The accept loops of the server, one per listening socket.  Each connection
\* the server makes is followed by its status and by whether its read loop
\* has ended; a connection holds no reference to the server and
\* startHandshake installs no OnClosed or OnConfirmed callback.
Listeners == 1..NumListeners

\* An assignment that leaves the new entry alone in the map.
MapPutOnly(m, k, v) == k :> v

\* m[k] = v on a Go map.
MapPut(m, k, v) == (k :> v) @@ m

\* NewTCPSecureConn(c) with secon.Seckey = this.Seckey.
NewTCPSecureConn(c) ==
    [Sock |-> c, Seckey |-> Seckey, Status |-> TCP_STATUS_NO_STATUS,
     started |-> FALSE, closed |-> FALSE]

\* lsner.Accept() returns a new socket; startHandshake is entered.
Accept(l) ==
    /\ apc[l] = "accept"
    /\ nsocks < MaxSocks
    /\ nsocks' = nsocks + 1
    /\ asock' = [asock EXCEPT ![l] = nsocks + 1]
    /\ apc' = [apc EXCEPT ![l] = "lock"]
    /\ UNCHANGED <<HSConns, Conns, hsconnmu, asecon, secons, oneConnVars>>

\* lsner.Accept() returns an error: the loop is left.
AcceptErr(l) ==
    /\ apc[l] = "accept"
    /\ apc' = [apc EXCEPT ![l] = "done"]
    /\ UNCHANGED <<HSConns, Conns, hsconnmu, asock, asecon, nsocks, secons, oneConnVars>>

\* startHandshake: this.hsconnmu.Lock()
HsLock(l) ==
    /\ apc[l] = "lock"
    /\ hsconnmu = 0
    /\ hsconnmu' = l
    /\ apc' = [apc EXCEPT ![l] = "new"]
    /\ UNCHANGED <<HSConns, Conns, asock, asecon, nsocks, secons, oneConnVars>>

\* startHandshake: secon := NewTCPSecureConn(c); secon.Seckey = this.Seckey
HsNew(l) ==
    /\ apc[l] = "new"
    /\ secons' = Append(secons, NewTCPSecureConn(asock[l]))
    /\ asecon' = [asecon EXCEPT ![l] = Len(secons) + 1]
    /\ apc' = [apc EXCEPT ![l] = "insert"]
    /\ UNCHANGED <<HSConns, Conns, hsconnmu, asock, nsocks, oneConnVars>>

\* startHandshake: this.HSConns[c] = secon
HsInsert(l) ==
    /\ apc[l] = "insert"
    /\ HSConns' = MapPut(HSConns, asock[l], asecon[l])
    /\ apc' = [apc EXCEPT ![l] = "start"]
    /\ UNCHANGED <<Conns, hsconnmu, asock, asecon, nsocks, secons, oneConnVars>>

\* startHandshake: secon.Start()
HsStart(l) ==
    /\ apc[l] = "start"
    /\ secons' = [secons EXCEPT ![asecon[l]].started = TRUE]
    /\ apc' = [apc EXCEPT ![l] = "unlock"]
    /\ UNCHANGED <<HSConns, Conns, hsconnmu, asock, asecon, nsocks, oneConnVars>>

\* startHandshake returns: the deferred this.hsconnmu.Unlock(); the loop
\* goes back to Accept.
HsUnlock(l) ==
    /\ apc[l] = "unlock"
    /\ hsconnmu' = 0
    /\ asock' = [asock EXCEPT ![l] = 0]
    /\ asecon' = [asecon EXCEPT ![l] = 0]
    /\ apc' = [apc EXCEPT ![l] = "accept"]
    /\ UNCHANGED <<HSConns, Conns, nsocks, secons, oneConnVars>>

\* A started connection processes its handshake request: Status = UNCONFIRMED.
ConnHandshake(i) ==
    /\ secons[i].started
    /\ ~secons[i].closed
    /\ secons[i].Status = TCP_STATUS_NO_STATUS
    /\ secons' = [secons EXCEPT ![i].Status = TCP_STATUS_UNCONFIRMED]
    /\ UNCHANGED <<HSConns, Conns, hsconnmu, apc, asock, asecon, nsocks, oneConnVars>>

\* It takes its first frame: Status = CONFIRMED; OnConfirmed is nil.
ConnConfirm(i) ==
    /\ secons[i].started
    /\ ~secons[i].closed
    /\ secons[i].Status = TCP_STATUS_UNCONFIRMED
    /\ secons' = [secons EXCEPT ![i].Status = TCP_STATUS_CONFIRMED]
    /\ UNCHANGED <<HSConns, Conns, hsconnmu, apc, asock, asecon, nsocks, oneConnVars>>

\* Its read fails (with io.EOF the status is reset) and runReadLoop ends;
\* OnClosed is nil.
ConnClose(i) ==
    /\ secons[i].started
    /\ ~secons[i].closed
    /\ \E eof \in BOOLEAN :
        secons' = [secons EXCEPT ![i].closed = TRUE,
                                 ![i].Status = IF eof THEN TCP_STATUS_NO_STATUS ELSE @]
    /\ UNCHANGED <<HSConns, Conns, hsconnmu, apc, asock, asecon, nsocks, oneConnVars>>

runAcceptProc(l) ==
    \/ Accept(l)
    \/ AcceptErr(l)
    \/ HsLock(l)
    \/ HsNew(l)
    \/ HsInsert(l)
    \/ HsStart(l)
    \/ HsUnlock(l)

ServerNext ==
    \/ \E l \in Listeners : runAcceptProc(l)
    \/ \E i \in 1..Len(secons) : ConnHandshake(i) \/ ConnConfirm(i) \/ ConnClose(i)

ServerSpec == Init /\ [][ServerNext]_vars

\* ------------------------------------------------------- the specification
ReadLoop ==
    \/ SockReadData
    \/ SockReadEOF
    \/ SockReadErr
    \/ ReadLoopDone
    \/ DoReadHandshake
    \/ HandshakeShrkey
    \/ HandshakeWrite
    \/ HandshakeDone
    \/ DoReadReturn
    \/ DoReadUnconfirmed
    \/ DoReadConfirmed

WriteLoop ==
    \/ SelectCtrl
    \/ SelectData
    \/ LoopWrite
    \/ FlushTake
    \/ FlushWrite
    \/ FlushDone

Callers ==
    \/ CallCheck
    \/ CallSelect
    \/ SendDataPacket

Peer ==
    \/ PeerSendHandshake
    \/ PeerSendFrame
    \/ PeerClose
    \/ SockFail

Next == Start \/ ReadLoop \/ WriteLoop \/ Callers \/ Peer

Spec == Init /\ [][Next]_vars

\* Goroutine scheduling: Start is called, and a loop that can take a step
\* eventually takes one.
\* Nothing obliges the peer or the callers to act.
FairSpec == Spec /\ WF_vars(Start) /\ WF_vars(ReadLoop) /\ WF_vars(WriteLoop)

\* A connection on which other goroutines call MakePingPacket and enqueue
\* data packets.
PingNext == Start \/ ReadLoop \/ WriteLoop \/ Peer \/ SendDataPacket \/ MakePingPacket

PingSpec == Init /\ [][PingNext]_vars

\* ------------------------------------------------------------ properties
NonceMod == 256 ^ NONCE_SIZE

\* The frame doReadPacket is about to take, whether it decrypts, and to what.
CurFrame == NextFrame(crbuf, nxtpktlen)

CurOk ==
    /\ rpc = "parse"
    /\ CurFrame.ready
    /\ DecryptOk(Shrkey, RecvNonce, Drop(CurFrame.rdbuf, LenPrefixSize))

CurPlain == OpenBody(Shrkey, RecvNonce, Drop(CurFrame.rdbuf, LenPrefixSize))

\* This step is doReadPacket taking a frame.
TakesFrame == hist'.decok + hist'.decfail > hist.decok + hist.decfail

ReadRunning == rpc \notin {"new", "done"}

WriteRunning == wpc \notin {"new", "done"}

PktsOut == SelectSeq(sockout, LAMBDA u : u.kind = "pkt")

RECURSIVE IncrN(_, _)
IncrN(n, k) == IF k = 0 THEN n ELSE IncrN(Incr(n), k - 1)

\* The plaintext the client recovers from the i-th data frame on the wire,
\* with the session key and the send nonce it took from the handshake response.
ClientOpens(i) ==
    LET resp == sockout[CHOOSE j \in HsResponses : TRUE].bytes
        n0 == Take(resp, NONCE_SIZE)
        k0 == CBBeforeNm(CBDerivePubkey(Seckey), CliSeckey)
        hsplain == OpenBody(k0, n0, Drop(resp, NONCE_SIZE))
        nonce == IncrN(Drop(hsplain, PUBLIC_KEY_SIZE), i - 1)
        enc == Drop(PktsOut[i].bytes, LenPrefixSize)
    IN  IF DecryptOk(PeerSessionKey(resp), nonce, enc)
        THEN OpenBody(PeerSessionKey(resp), nonce, enc)
        ELSE <<>>

\* C1: the status only moves NoStatus -> Unconfirmed -> Confirmed, and does
\* not fall back while runReadLoop or runWriteLoop is still running.
C1_StatusForward ==
    [][Status' # Status =>
         \/ Status = TCP_STATUS_NO_STATUS /\ Status' = TCP_STATUS_UNCONFIRMED
         \/ Status = TCP_STATUS_UNCONFIRMED /\ Status' = TCP_STATUS_CONFIRMED
         \/ ~ReadRunning /\ ~WriteRunning]_vars

\* C2: once a loop has seen a socket error, both loops end and OnClosed
\* has been called (unless the process has ended).
C2_BothLoopsEnd ==
    (Alive /\ (rpc = "closing" \/ wpc = "done"))
        ~> ((rpc = "done" /\ wpc = "done" /\ hist.closed > 0) \/ ~Alive)

\* C3: the control queue never holds more than its capacity, and a
\* SendCtrlPacket call (with a payload of allowed length) that finds the queue
\* at capacity returns "full" in that step and leaves the queue as it was.
C3_FullQueueRejects ==
    /\ [](Len(cwctrlq) <= CtrlQCap)
    /\ [][(/\ Len(cwctrlq) >= CtrlQCap
           /\ \/ cpc = "idle" /\ ncalls'.ctrl = ncalls.ctrl + 1 /\ cret' # "toolong"
              \/ cpc = "select" /\ cpc' # cpc)
          => /\ cret' = "full"
             /\ cpc' = "idle"
             /\ cwctrlq' = cwctrlq
             /\ cwctrldlen' = cwctrldlen]_vars

C3_Witness == cret = "full" /\ Len(cwctrlq) = CtrlQCap /\ cpc = "idle"

C5_SendNonce ==
    SentNonce # <<>> =>
        NonceVal(SentNonce) = (NonceVal(hist.hsnonce) + hist.nsent) % NonceMod

C5_Witness == wpc = "done" /\ hist.nsent >= 2 /\ Alive

\* C6: the receive nonce is the client's seed plus the number of inbound
\* frames that were decrypted successfully.
C6_RecvNonce ==
    RecvNonce # <<>> =>
        NonceVal(RecvNonce) = (NonceVal(hist.seed) + hist.decok) % NonceMod

\* C7: a frame whose decryption fails is not dispatched and does not advance
\* the status, the read loop is left for the close, and no later frame is
\* decrypted.
C7_DecryptFailureCloses ==
    [][/\ (hist'.decfail > hist.decfail)
            => /\ Status' = Status
               /\ cwctrlq' = cwctrlq
               /\ rpc' \in {"closing", "done"}
       /\ (hist.decfail > 0)
            => /\ hist'.decok = hist.decok
               /\ hist'.decfail = hist.decfail
               /\ Status' \in {Status, TCP_STATUS_NO_STATUS}]_vars

\* C8: no received packet reaches log.Fatalln in doReadPacket.
C8_NoFatal == crashed # "fatal"

C10_PingPong ==
    [][(Status = TCP_STATUS_CONFIRMED /\ CurOk /\ CurPlain[1] = TCP_PACKET_PING
        /\ TakesFrame /\ Len(cwctrlq) < CtrlQCap)
       => cwctrlq' = Append(cwctrlq, <<TCP_PACKET_PONG>> \o Tail(CurPlain))]_vars

\* The bytes of the peer's stream that no frame has been cut from yet: a
\* length prefix doReadPacket holds in nxtpktlen, the ring buffer, and what
\* the socket has not delivered.
Buffered == (IF nxtpktlen # 0 THEN PutU16(nxtpktlen) ELSE <<>>) \o crbuf

Pending == Buffered \o netin

\* The first frame of a byte stream, cut in one piece.
WholeFrame(s) == Len(s) >= LenPrefixSize /\ Len(s) >= LenPrefixSize + GetU16(s)

FirstFrame(s) == Take(s, LenPrefixSize + GetU16(s))

\* C11: after the handshake the frames doReadPacket cuts out are those of the
\* byte stream, however the stream is split into socket reads: a socket
\* read and a return for more bytes leave the pending stream as it was, a
\* return happens only while the buffered bytes hold no whole frame, and a
\* frame is cut only when it is whole in the buffer, is the first frame of
\* the pending stream and is removed from it exactly.
C11_FramingSplitFree ==
    [][(Status = TCP_STATUS_UNCONFIRMED \/ Status = TCP_STATUS_CONFIRMED) =>
        /\ (rpc = "read" /\ rpc' = "parse") => Pending' = Pending
        /\ (rpc = "parse" /\ rpc' = "read")
             => (Pending' = Pending /\ ~WholeFrame(Buffered))
        /\ TakesFrame
             => /\ WholeFrame(Buffered)
                /\ CurFrame.rdbuf = FirstFrame(Pending)
                /\ crbuf' \o netin' = Drop(Pending, Len(FirstFrame(Pending)))
                /\ Alive' => nxtpktlen' = 0]_vars

\* A second frame whose length prefix came in an earlier read than its last
\* byte is about to be cut, after the first frame was cut and decrypted.
C11_Witness ==
    /\ Alive
    /\ Status = TCP_STATUS_CONFIRMED
    /\ hist.decok >= 1
    /\ rpc = "parse"
    /\ nxtpktlen # 0
    /\ CurFrame.ready

\* C12: while the status is Unconfirmed the handshake request was decrypted
\* with its MAC verified and the handshake response was written to the
\* socket without error.
C12_UnconfirmedAfterHandshake ==
    Status = TCP_STATUS_UNCONFIRMED => (hist.hsok /\ hist.hsresp)

\* This step is taken by runReadLoop (doReadPacket, HandleHandshake).
ReadStep == rpc \in {"read", "parse", "hs363", "hs374", "hs232", "closing"} /\ wpc' = wpc

\* This step is taken by runWriteLoop.
WriteStep == wpc \in {"select", "write", "flush", "flushwrite"} /\ rpc' = rpc

\* C13: the session key is written once, before Start has launched the two
\* loops; the send nonce is written by runWriteLoop only and the receive
\* nonce by runReadLoop only; and runReadLoop never writes the session key or
\* the send nonce while runWriteLoop is running.
C13_SingleWriter ==
    [][/\ Shrkey' # Shrkey => (Shrkey = <<>> /\ rpc = "new" /\ wpc = "new")
       /\ SentNonce' # SentNonce => WriteStep
       /\ RecvNonce' # RecvNonce => ReadStep
       /\ ((Shrkey' # Shrkey \/ SentNonce' # SentNonce) /\ ReadStep) => ~WriteRunning]_vars

\* C14: a loop that has ended on a transport error (a failed or EOF read
\* for runReadLoop, a failed write for runWriteLoop) leaves the status at
\* NoStatus and OnClosed called.
C14_TransportErrorResets ==
    (Alive /\ (rpc = "done" \/ wpc = "done"))
        => (Status = TCP_STATUS_NO_STATUS /\ hist.closed > 0)

\* C15: no two encryptions under Shrkey (by WritePacket through
\* CreatePacket, or by MakePingPacket through CreatePacket) use the same
\* send-nonce value for different plaintexts.
C15_NonceNeverReused ==
    \A e1 \in hist.encs, e2 \in hist.encs : e1[1] = e2[1] => e1[2] = e2[2]

\* The sockets whose startHandshake has not reached the insertion yet.
BeforeInsert == {asock[l] : l \in {k \in Listeners : apc[k] \in {"lock", "new", "insert"}}}

\* C16: every accepted socket gets one new connection, stored in HSConns
\* under that socket by a startHandshake that holds hsconnmu, and started
\* before the lock is released; no entry of HSConns is ever removed or
\* replaced, and Conns stays empty, whatever accepts, handshakes and closes
\* have happened.
C16_PendingRegistry ==
    /\ [](/\ Conns = <<>>
          /\ DOMAIN HSConns = (1..nsocks) \ BeforeInsert
          /\ \A c \in DOMAIN HSConns :
                /\ HSConns[c] \in 1..Len(secons)
                /\ secons[HSConns[c]].Sock = c
                /\ \/ secons[HSConns[c]].started
                   \/ \E l \in Listeners :
                        apc[l] = "start" /\ asecon[l] = HSConns[c] /\ hsconnmu = l
          /\ \A i \in 1..Len(secons), j \in 1..Len(secons) :
                secons[i].Sock = secons[j].Sock => i = j
          /\ (\A l \in Listeners : apc[l] \in {"accept", "done"})
                => /\ Cardinality(DOMAIN HSConns) = nsocks
                   /\ Len(secons) = nsocks)
    /\ [][/\ \A c \in DOMAIN HSConns :
                c \in DOMAIN HSConns' /\ HSConns'[c] = HSConns[c]
          /\ HSConns' # HSConns
                => \E l \in Listeners :
                      /\ hsconnmu = l
                      /\ hsconnmu' = l
                      /\ apc[l] = "insert"
                      /\ asock[l] \notin DOMAIN HSConns
                      /\ asecon[l] = Len(secons)
                      /\ DOMAIN HSConns' = DOMAIN HSConns \cup {asock[l]}
                      /\ HSConns'[asock[l]] = asecon[l]]_vars

\* Every socket of the run was accepted and registered, through both
\* listeners' loops, and the connections have since handshaken, confirmed
\* and closed.
C16_Witness ==
    /\ nsocks = MaxSocks
    /\ Cardinality(DOMAIN HSConns) = MaxSocks
    /\ \A l \in Listeners : apc[l] \in {"accept", "done"}
    /\ \E i \in 1..Len(secons) : secons[i].closed
    /\ \E i \in 1..Len(secons) : secons[i].Status = TCP_STATUS_CONFIRMED /\ ~secons[i].closed
    /\ Conns = <<>>

C18_HandshakeWaitsForRequest ==
    /\ [](crashed # "assert")
    /\ [][(rpc = "parse" /\ Status = TCP_STATUS_NO_STATUS /\ ReadStep
           /\ (rpc' # rpc \/ crbuf' # crbuf \/ crashed' # crashed))
          => IF Len(crbuf) < HandshakeRequestSize
             THEN rpc' = "read" /\ crbuf' = crbuf /\ Alive'
             ELSE crbuf' = Drop(crbuf, HandshakeRequestSize)]_vars

\* This step is runWriteLoop running WritePacket on the item it took.
WritePacketStep ==
    /\ wpc \in {"write", "flushwrite"}
    /\ \/ wpc' # wpc
       \/ hist'.encs # hist.encs
       \/ crashed' = "panic" /\ crashed = "no" /\ crbuf' = crbuf /\ hist'.npings = hist.npings

\* C19: WritePacket runs only with the status past NoStatus, the session
\* key and the send nonce set and the handshake response written, and the
\* first thing written to the socket is the handshake response.
C19_WriteAfterHandshake ==
    /\ [][WritePacketStep
            => /\ Status # TCP_STATUS_NO_STATUS
               /\ Shrkey # <<>>
               /\ SentNonce # <<>>
               /\ HsResponses # {}]_vars
    /\ [](sockout # <<>> => sockout[1].kind = "hs")

\* C20: under fair scheduling of the two loops, a control packet that
\* SendCtrlPacket accepted after OnClosed was called (so that no OnClosed
\* call follows it) is eventually written to the socket by the worker,
\* unless the process ends.
C20_AcceptedEventuallyWritten ==
    (hist.late.st \in {"queued", "inhand"}) ~> (hist.late.st = "written" \/ ~Alive)

====
